---- MODULE Spec2Model ----
(***************************************************************************)
(* Persistent treap of treap.go: nodes in a heap of addresses, the        *)
(* package-level nodePool, and the version handles returned to callers.   *)
(* Upsert = newNode + union (which uses split), Delete = split + join +   *)
(* two deferred nodePool.Put calls.                                       *)
(***************************************************************************)
EXTENDS Integers, Sequences, FiniteSets, TLC

\* ------------------------------------------------------------------ bounds
MaxKey == 3        \* keys are 1..MaxKey
MaxVal == 2        \* payloads carried by an item besides its key
MaxPrio == 2       \* priorities are 1..MaxPrio
MaxAddr == 12      \* node addresses are 1..MaxAddr
MaxVersions == 4   \* handles kept by the callers of Spec
MaxCalls == 5      \* calls in a chain of SpecLinear
KeepLast == 3      \* handles the caller of SpecChain keeps while it logs
PoolCap == 2       \* nodes the pool holds before it drops what is put

Keys == 1..MaxKey
Vals == 1..MaxVal
Prios == 1..MaxPrio
Addr == 1..MaxAddr
NIL == 0

\* An Item is opaque to the container; the caller's compare looks at its key.
Item == [key : Keys, val : Vals]
NoItem == [key |-> 0, val |-> 0]            \* the nil Item ("absent")
Diverges == [key |-> -1, val |-> -1]        \* a walk that never returns
KeyItem(k) == [key |-> k, val |-> 1]        \* an Item used as a lookup target

\* type node struct: the zero value &node{}
ZeroNode == [item |-> NoItem, priority |-> 0, left |-> NIL, right |-> NIL]
MkNode(item, priority, left, right) ==
  [item |-> item, priority |-> priority, left |-> left, right |-> right]

VARIABLES
  heap,       \* [Addr -> node]: the fields of every node object
  nodePool,   \* [Addr -> Nat]: how many times the pool holds each node
  versions,   \* sequence of roots: the Treap handles the callers hold
  hist,       \* parallel to versions: the call that returned each handle
  crashed,    \* TRUE once a call recursed without end (stack overflow)
  rd,         \* the concurrent reader (SpecConc)
  res         \* the result of the last pure call (SpecTree)

vars == <<heap, nodePool, versions, hist, crashed, rd, res>>

\* ------------------------------------------------------------ the caller's order
compare(a, b) == IF a.key < b.key THEN -1 ELSE IF a.key > b.key THEN 1 ELSE 0

\* ------------------------------------------------------------------ graph helpers
SetMin(S) == CHOOSE x \in S : \A y \in S : x <= y

Children(h, S) == ({h[a].left : a \in S} \cup {h[a].right : a \in S}) \ {NIL}

RECURSIVE Closure(_, _)
Closure(h, S) ==
  LET T == S \cup Children(h, S) IN IF T = S THEN S ELSE Closure(h, T)

\* the nodes reachable from root n
Reach(h, n) == Closure(h, {n} \ {NIL})

Range(q) == {q[i] : i \in DOMAIN q}
PoolAddrs(p) == {a \in Addr : p[a] > 0}

RECURSIVE SeqOf(_)
SeqOf(S) == IF S = {} THEN <<>> ELSE <<SetMin(S)>> \o SeqOf(S \ {SetMin(S)})

RECURSIVE Sum(_, _)
Sum(f, S) == IF S = {} THEN 0 ELSE f[SetMin(S)] + Sum(f, S \ {SetMin(S)})

\* The pointers the program holds: the roots of the handles and the node the
\* reader stands on.
RdRoots(r) == IF r.pc = "idle" THEN <<>> ELSE <<r.n>>
Live(h, roots) == Closure(h, Range(roots) \ {NIL})

\* The addresses the allocator may hand out as a new &node{}: unreachable from
\* every pointer the program holds and not held by the pool.
FreeAddrs(h, p, roots) == Addr \ (Live(h, roots) \cup PoolAddrs(p))

\* the state a call works on
St(h, p, roots) ==
  [heap |-> h, pool |-> p, free |-> FreeAddrs(h, p, roots), ok |-> TRUE]

\* Garbage collection: a node no pointer reaches has dead fields (newNode and
\* the node literals of join write all four fields before anything reads them).
Collect(h, roots) ==
  LET live == Live(h, roots)
  IN [a \in Addr |-> IF a \in live THEN h[a] ELSE ZeroNode]

\* Addresses are opaque: states that differ by a renaming of addresses are the
\* same program state. Order(h, roots) lists the live nodes in preorder from the
\* pointers held; Renumbering lists every address: live, then pooled, then free.
RECURSIVE Order(_, _, _)
Order(h, stack, seen) ==
  IF stack = <<>> THEN seen
  ELSE LET n == Head(stack) IN
       IF n = NIL \/ n \in Range(seen) THEN Order(h, Tail(stack), seen)
       ELSE Order(h, <<h[n].left, h[n].right>> \o Tail(stack), Append(seen, n))

RECURSIVE ByCount(_, _, _)
ByCount(p, S, c) ==
  IF S = {} THEN <<>>
  ELSE LET T == {a \in S : p[a] >= c}
       IN SeqOf(T) \o ByCount(p, S \ T, c - 1)

Renumbering(h, p, roots) ==
  LET live == Order(h, roots, <<>>)
      rest == Addr \ Range(live)
  IN live \o ByCount(p, rest, Sum(p, Addr))

\* the new address of every old one under the renumbering q
NewAddrs(q) == [a \in Addr |-> CHOOSE i \in Addr : q[i] = a]
NewAddr(inv, a) == IF a = NIL THEN NIL ELSE inv[a]

\* ------------------------------------------------------------------ the pool
\* nodePool.Put(n). A typed nil pointer put into the pool comes back as nil from
\* Get and newNode then takes the &node{} path, which the allocation models.
\* sync.Pool may drop an item at any time: one that holds PoolCap items does.
Put(st, n) ==
  IF n = NIL \/ Sum(st.pool, Addr) >= PoolCap THEN st
  ELSE [st EXCEPT !.pool[n] = @ + 1]

\* &node{...}: a new object
Alloc(st, nd) ==
  IF st.free = {} THEN {}
  ELSE LET n == SetMin(st.free)
       IN {[st |-> [st EXCEPT !.heap[n] = nd, !.free = @ \ {n}], n |-> n]}

\* newNode: nodePool.Get() returns any node the pool holds, or a new one
\* (New, or one of the blank nodes init put there); the four fields are written.
newNode(st, item, priority, left, right) ==
  LET nd == MkNode(item, priority, left, right)
  IN {[st |-> [st EXCEPT !.heap[n] = nd, !.pool[n] = @ - 1], n |-> n] :
        n \in PoolAddrs(st.pool)}
     \cup Alloc(st, nd)

\* ------------------------------------------------------------------ point queries
RECURSIVE GetFrom(_, _, _, _)
GetFrom(h, n, target, fuel) ==
  IF n = NIL THEN NoItem
  ELSE IF fuel = 0 THEN Diverges
  ELSE LET c == compare(target, h[n].item)
       IN IF c < 0 THEN GetFrom(h, h[n].left, target, fuel - 1)
          ELSE IF c > 0 THEN GetFrom(h, h[n].right, target, fuel - 1)
          ELSE h[n].item

\* a walk over an unchanging heap that visits more than MaxAddr nodes repeats one
Get(h, root, target) == GetFrom(h, root, target, MaxAddr)

RECURSIVE MinFrom(_, _, _)
MinFrom(h, n, fuel) ==
  IF fuel = 0 THEN Diverges
  ELSE IF h[n].left # NIL THEN MinFrom(h, h[n].left, fuel - 1)
  ELSE h[n].item

\* a Min that does not walk
MinMut(h, root) == IF root = NIL THEN NoItem ELSE h[root].item

Min(h, root) == IF root = NIL THEN NoItem ELSE MinFrom(h, root, MaxAddr)

RECURSIVE MaxFrom(_, _, _)
MaxFrom(h, n, fuel) ==
  IF fuel = 0 THEN Diverges
  ELSE IF h[n].right # NIL THEN MaxFrom(h, h[n].right, fuel - 1)
  ELSE h[n].item

Max(h, root) == IF root = NIL THEN NoItem ELSE MaxFrom(h, root, MaxAddr)

\* ------------------------------------------------------------------ split
Loop(st) == [st EXCEPT !.ok = FALSE]

SplitOut(st, l, m, r) == [st |-> st, left |-> l, middle |-> m, right |-> r]

\* a split that loses the right subtree of the node it finds
splitFoundMut(h, n) == [left |-> h[n].left, middle |-> n, right |-> NIL]

\* line 174: return n.left, n, n.right
splitFound(h, n) == [left |-> h[n].left, middle |-> n, right |-> h[n].right]

\* a split that descends on the wrong side
splitGoesLeftMut(c) == c > 0

\* line 176: if c < 0
splitGoesLeft(c) == c < 0

\* The set of results of split(n, s): one per choice nodePool.Get can make.
\* n's fields are read again after the recursive call, when newNode is called.
RECURSIVE split(_, _, _, _)
split(st, n, s, fuel) ==
  IF n = NIL THEN {SplitOut(st, NIL, NIL, NIL)}
  ELSE IF fuel = 0 THEN {SplitOut(Loop(st), NIL, NIL, NIL)}
  ELSE
    LET c == compare(s, st.heap[n].item) IN
    IF c = 0 THEN
      LET f == splitFound(st.heap, n) IN {SplitOut(st, f.left, f.middle, f.right)}
    ELSE IF splitGoesLeft(c) THEN
      UNION {
        IF ~r.st.ok THEN {r}
        ELSE { SplitOut(o.st, r.left, r.middle, o.n) :
                 o \in newNode(r.st, r.st.heap[n].item, r.st.heap[n].priority,
                               r.right, r.st.heap[n].right) }
        : r \in split(st, st.heap[n].left, s, fuel - 1) }
    ELSE
      UNION {
        IF ~r.st.ok THEN {r}
        ELSE { SplitOut(o.st, o.n, r.middle, r.right) :
                 o \in newNode(r.st, r.st.heap[n].item, r.st.heap[n].priority,
                               r.st.heap[n].left, r.left) }
        : r \in split(st, st.heap[n].right, s, fuel - 1) }

\* split descends before it writes: more than MaxAddr levels is a cycle
SplitFuel == MaxAddr

\* ------------------------------------------------------------------ union
NodeOut(st, n) == [st |-> st, n |-> n]

\* a union that keeps this on top on a tie
unionThisWinsTie(thisPrio, thatPrio) == thisPrio >= thatPrio

\* a union that keeps the lower priority on top
unionThisWinsRev(thisPrio, thatPrio) == thisPrio < thatPrio

\* line 119: if this.priority > that.priority
unionThisWins(thisPrio, thatPrio) == thisPrio > thatPrio

\* a union that keeps the item of this when the keys collide
unionCollideItemMut(i, middleItem) == i

\* line 135: newNode(middle.item, p, ...): the item of the colliding node of that
unionCollideItem(i, middleItem) == middleItem

\* The set of results of union(this, that). i, p, l, r are copied before split
\* runs. On line 135 Go does not fix when middle.item is read relative to the
\* two union calls in the same argument list: before, between or after them.
RECURSIVE union(_, _, _, _)
union(st, this, that, fuel) ==
  IF this = NIL THEN {NodeOut(st, that)}
  ELSE IF that = NIL THEN {NodeOut(st, this)}
  ELSE IF fuel = 0 THEN {}
  ELSE IF unionThisWins(st.heap[this].priority, st.heap[that].priority) THEN
    LET i == st.heap[this].item
        p == st.heap[this].priority
        l == st.heap[this].left
        r == st.heap[this].right
    IN UNION {
         IF ~s.st.ok THEN {NodeOut(s.st, NIL)}
         ELSE UNION {
           IF ~u1.st.ok THEN {u1}
           ELSE UNION {
             IF ~u2.st.ok THEN {u2}
             ELSE IF s.middle = NIL THEN newNode(u2.st, i, p, u1.n, u2.n)
             ELSE UNION { newNode(u2.st, unionCollideItem(i, h[s.middle].item),
                                  p, u1.n, u2.n) :
                            h \in {s.st.heap, u1.st.heap, u2.st.heap} }
             : u2 \in union(u1.st, r, s.right, fuel - 1) }
           : u1 \in union(s.st, l, s.left, fuel - 1) }
         : s \in split(st, that, i, SplitFuel) }
  ELSE
    LET i == st.heap[that].item
        p == st.heap[that].priority
        l == st.heap[that].left
        r == st.heap[that].right
    IN UNION {
         IF ~s.st.ok THEN {NodeOut(s.st, NIL)}
         ELSE UNION {
           IF ~u1.st.ok THEN {u1}
           ELSE UNION {
             IF ~u2.st.ok THEN {u2}
             ELSE newNode(u2.st, i, p, u1.n, u2.n)
             : u2 \in union(u1.st, s.right, r, fuel - 1) }
           : u1 \in UNION { union(sp, s.left, l, fuel - 1) :
                                sp \in {Put(s.st, s.middle)} } }
         : s \in split(st, this, i, SplitFuel) }

UnionFuel == 2 * MaxAddr

\* ------------------------------------------------------------------ join
\* a join that puts this on top on a tie
joinThisOnTopTie(thisPrio, thatPrio) == thisPrio >= thatPrio

\* a join that puts the lower priority on top
joinThisOnTopRev(thisPrio, thatPrio) == thisPrio < thatPrio

\* line 213: if this.priority > that.priority
joinThisOnTop(thisPrio, thatPrio) == thisPrio > thatPrio

\* join builds its nodes with &node{...}: new objects, never from the pool.
RECURSIVE join(_, _, _, _)
join(st, this, that, fuel) ==
  IF this = NIL THEN {NodeOut(st, that)}
  ELSE IF that = NIL THEN {NodeOut(st, this)}
  ELSE IF fuel = 0 THEN {NodeOut(Loop(st), NIL)}
  ELSE IF joinThisOnTop(st.heap[this].priority, st.heap[that].priority) THEN
    UNION {
      IF ~j.st.ok THEN {j}
      ELSE Alloc(j.st, MkNode(j.st.heap[this].item, j.st.heap[this].priority,
                              j.st.heap[this].left, j.n))
      : j \in join(st, st.heap[this].right, that, fuel - 1) }
  ELSE
    UNION {
      IF ~j.st.ok THEN {j}
      ELSE Alloc(j.st, MkNode(j.st.heap[that].item, j.st.heap[that].priority,
                              j.n, j.st.heap[that].right))
      : j \in join(st, this, st.heap[that].left, fuel - 1) }

\* join writes no existing node: a pair (this, that) seen twice recurs for ever
JoinFuel == (MaxAddr + 1) * (MaxAddr + 1)

\* ------------------------------------------------------------------ Upsert, Delete
\* Upsert: t.union(t.root, newNode(item, itemPriority, nil, nil))
UpsertOutcomes(st, root, item, itemPriority) ==
  UNION { union(t.st, root, t.n, UnionFuel) :
            t \in newNode(st, item, itemPriority, NIL, NIL) }

\* Delete: split, join, then the deferred Puts of t.root and of middle
DeleteOutcomes(st, root, target) ==
  UNION {
    IF ~s.st.ok THEN {NodeOut(s.st, NIL)}
    ELSE { IF ~j.st.ok THEN j ELSE NodeOut(Put(Put(j.st, root), s.middle), j.n) :
             j \in join(s.st, s.left, s.right, JoinFuel) }
    : s \in split(st, root, target, SplitFuel) }

\* What a handle holds, free of addresses: one record per node it reaches, with
\* the keys of the node's children (0 for none).
ChildKey(h, c) == IF c = NIL THEN 0 ELSE h[c].item.key

Abs(h, root) ==
  { [item |-> h[a].item, priority |-> h[a].priority,
     left |-> ChildKey(h, h[a].left), right |-> ChildKey(h, h[a].right)] :
      a \in Reach(h, root) }

\* the reference map of a handle: what a plain map would hold after the same calls
EmptyRef == [k \in Keys |-> NoItem]

\* A call returns: the handle is appended (the caller keeps its last `window`
\* handles), unreachable nodes are collected. A call that recursed without end
\* kills the program.
Renamed(h, p, vs, hs, q) ==
  \E inv \in {NewAddrs(q)} :
    /\ versions' = [i \in DOMAIN vs |-> NewAddr(inv, vs[i])]
    /\ hist' = hs
    /\ heap' = [i \in Addr |->
                  [h[q[i]] EXCEPT !.left = NewAddr(inv, @), !.right = NewAddr(inv, @)]]
    /\ nodePool' = [i \in Addr |-> p[q[i]]]
    /\ rd' = IF rd.pc = "idle" THEN rd ELSE [rd EXCEPT !.n = NewAddr(inv, @)]

Commit(o, rec, window) ==
  IF o.st.ok THEN
    LET vs == Append(versions, o.n)
        hs == Append(hist, [rec EXCEPT !.snap = Abs(o.st.heap, o.n)])
        d == IF Len(vs) > window THEN Len(vs) - window ELSE 0
        vs2 == SubSeq(vs, d + 1, Len(vs))
        roots == vs2 \o RdRoots(rd)
    IN /\ \E h2 \in {Collect(o.st.heap, roots)} :
            \E q \in {Renumbering(h2, o.st.pool, roots)} :
               Renamed(h2, o.st.pool, vs2, SubSeq(hs, d + 1, Len(hs)), q)
       /\ crashed' = FALSE
  ELSE
    /\ crashed' = TRUE
    /\ UNCHANGED <<heap, nodePool, versions, hist, rd>>

\* the call as the caller's log records it (SpecChain keeps the log)
LogRec(log, op, item, prio) ==
  IF log THEN [op |-> op, item |-> item, prio |-> prio]
  ELSE [op |-> "", item |-> NoItem, prio |-> 0]

\* How the caller makes a call: how many handles it keeps afterwards, whether
\* it logs the call, whether it counts it.
Kept == [window |-> MaxVersions, log |-> FALSE, count |-> TRUE]
Dropped == [window |-> 1, log |-> FALSE, count |-> TRUE]
Building == [window |-> 1, log |-> FALSE, count |-> FALSE]
Probing == [window |-> KeepLast, log |-> TRUE, count |-> TRUE]

Counted(m, v) == IF m.count THEN hist[v].calls + 1 ELSE hist[v].calls

Upsert(v, item, itemPriority, m) ==
  /\ ~crashed
  /\ \E st \in {St(heap, nodePool, versions \o RdRoots(rd))} :
     \E o \in UpsertOutcomes(st, versions[v], item, itemPriority) :
       Commit(o, [call |-> LogRec(m.log, "Upsert", item, itemPriority),
                  pure |-> hist[v].pure, calls |-> Counted(m, v), snap |-> {},
                  ref |-> [hist[v].ref EXCEPT ![item.key] = item]], m.window)
  /\ UNCHANGED res

Delete(v, target, m) ==
  /\ ~crashed
  /\ \E st \in {St(heap, nodePool, versions \o RdRoots(rd))} :
     \E o \in DeleteOutcomes(st, versions[v], target) :
       Commit(o, [call |-> LogRec(m.log, "Delete", target, 0),
                  pure |-> FALSE, calls |-> Counted(m, v), snap |-> {},
                  ref |-> [hist[v].ref EXCEPT ![target.key] = NoItem]], m.window)
  /\ UNCHANGED res

\* ------------------------------------------------------------------ specifications
Latest == Len(versions)
LatestRoot == versions[Latest]

NoReader == [pc |-> "idle"]
NoRes == [op |-> "none"]

\* NewTreap and the package init: an empty treap, no recycled node in the pool
Init ==
  /\ heap = [a \in Addr |-> ZeroNode]
  /\ nodePool = [a \in Addr |-> 0]
  /\ versions = <<NIL>>
  /\ hist = <<[call |-> LogRec(FALSE, "", NoItem, 0), pure |-> TRUE, calls |-> 0,
               snap |-> {},
               ref |-> EmptyRef]>>
  /\ crashed = FALSE
  /\ rd = NoReader
  /\ res = NoRes

\* Spec: every handle is kept and any of them may be used again.
UpsertAny ==
  \E v \in DOMAIN versions, item \in Item, p \in Prios :
    Len(versions) < MaxVersions /\ Upsert(v, item, p, Kept)

DeleteAny ==
  \E v \in DOMAIN versions, k \in Keys :
    Len(versions) < MaxVersions /\ Delete(v, KeyItem(k), Kept)

Next == UpsertAny \/ DeleteAny

Spec == Init /\ [][Next]_vars

\* SpecLinear: each call is made on the handle the previous call returned, and
\* the caller drops the older handle.
UpsertLatest ==
  \E item \in Item, p \in Prios :
    /\ hist[Len(hist)].calls < MaxCalls
    /\ Upsert(Len(versions), item, p, Dropped)

DeleteLatest ==
  \E k \in Keys :
    /\ hist[Len(hist)].calls < MaxCalls
    /\ Delete(Len(versions), KeyItem(k), Dropped)

NextLinear == UpsertLatest \/ DeleteLatest

SpecLinear == Init /\ [][NextLinear]_vars

\* SpecChain: a linear chain of Upsert calls from the empty treap, of any
\* length, builds T. The caller then keeps its handles and logs what it calls
\* next: one Upsert or one Delete on T, and after an Upsert the Delete of the
\* key it has just upserted (the round trip).
UpsertBuild ==
  \E item \in Item, p \in Prios :
    /\ hist[Len(hist)].calls = 0
    /\ Upsert(Len(versions), item, p, Building)

UpsertProbe ==
  \E item \in Item, p \in Prios :
    /\ hist[Len(hist)].calls = 0
    /\ Upsert(Len(versions), item, p, Probing)

DeleteProbe ==
  \E k \in Keys :
    /\ hist[Len(hist)].calls = 0
    /\ Delete(Len(versions), KeyItem(k), Probing)

DeleteBack ==
  /\ hist[Len(hist)].calls = 1
  /\ hist[Len(hist)].call.op = "Upsert"
  /\ Delete(Len(versions), KeyItem(hist[Len(hist)].call.item.key), Probing)

NextChain == UpsertBuild \/ UpsertProbe \/ DeleteProbe \/ DeleteBack

SpecChain == Init /\ [][NextChain]_vars

\* SpecConc: a writer makes its calls on the latest handle while a reader runs
\* Get on a handle it picked, one node-field read per step (lines 89 to 100).
ReaderStart ==
  \E v \in DOMAIN versions, k \in Keys :
    /\ ~crashed /\ rd.pc = "idle"
    /\ rd' = [pc |-> "compare", v |-> v, target |-> KeyItem(k), n |-> versions[v],
              c |-> 0, expect |-> Get(heap, versions[v], KeyItem(k)),
              result |-> NoItem]
    /\ UNCHANGED <<heap, nodePool, versions, hist, crashed, res>>

\* for n != nil { c := t.compare(target, n.item)
ReaderCompare ==
  /\ ~crashed /\ rd.pc = "compare"
  /\ rd' = IF rd.n = NIL THEN [rd EXCEPT !.pc = "done", !.result = NoItem]
           ELSE [rd EXCEPT !.pc = "branch", !.c = compare(rd.target, heap[rd.n].item)]
  /\ UNCHANGED <<heap, nodePool, versions, hist, crashed, res>>

\* n = n.left, n = n.right or return n.item
ReaderBranch ==
  /\ ~crashed /\ rd.pc = "branch"
  /\ rd' = IF rd.c < 0 THEN [rd EXCEPT !.pc = "compare", !.n = heap[rd.n].left]
           ELSE IF rd.c > 0 THEN [rd EXCEPT !.pc = "compare", !.n = heap[rd.n].right]
           ELSE [rd EXCEPT !.pc = "done", !.result = heap[rd.n].item, !.n = NIL]
  /\ UNCHANGED <<heap, nodePool, versions, hist, crashed, res>>

UpsertWriter ==
  \E item \in Item, p \in Prios :
    /\ Len(versions) < MaxVersions
    /\ Upsert(Len(versions), item, p, Kept)

DeleteWriter ==
  \E k \in Keys :
    /\ Len(versions) < MaxVersions
    /\ Delete(Len(versions), KeyItem(k), Kept)

NextConc ==
  UpsertWriter \/ DeleteWriter \/ ReaderStart \/ ReaderCompare \/ ReaderBranch

SpecConc == Init /\ [][NextConc]_vars

\* ------------------------------------------------------------------ VisitAscend
\* the caller's visitor: it asks to stop at the items whose key is in `stop`
visitor(stop, i) == i.key \notin stop

\* a traversal that skips the item equal to the pivot
visitTakesMut(c) == c < 0

\* line 240: if t.compare(pivot, n.item) <= 0
visitTakes(c) == c <= 0

\* a traversal that goes on after its left subtree asked to stop
visitGivesUpMut(ret) == FALSE

\* line 241: if !t.visitAscend(n.left, pivot, visitor) { return false }
visitGivesUp(ret) == ~ret

\* visitAscend(n, pivot, visitor): `calls` are the visitor's calls so far; the
\* result carries them and the boolean visitAscend returns.
RECURSIVE visitAscend(_, _, _, _, _, _)
visitAscend(h, n, pivot, stop, calls, fuel) ==
  IF n = NIL THEN [calls |-> calls, ret |-> TRUE, ends |-> TRUE]
  ELSE IF fuel = 0 THEN [calls |-> calls, ret |-> FALSE, ends |-> FALSE]
  ELSE IF visitTakes(compare(pivot, h[n].item)) THEN
    LET l == visitAscend(h, h[n].left, pivot, stop, calls, fuel - 1) IN
    IF visitGivesUp(l.ret) THEN l
    ELSE IF ~visitor(stop, h[n].item)
      THEN [calls |-> Append(l.calls, h[n].item), ret |-> FALSE, ends |-> TRUE]
    ELSE visitAscend(h, h[n].right, pivot, stop, Append(l.calls, h[n].item),
                     fuel - 1)
  ELSE visitAscend(h, h[n].right, pivot, stop, calls, fuel - 1)

VisitAscend(h, root, pivot, stop) == visitAscend(h, root, pivot, stop, <<>>, MaxAddr)

\* SpecTree: the pure calls, on every tree a chain of Upsert calls can build:
\* the trees over Keys that satisfy the BST and the heap invariant (inserting
\* the nodes by ascending priority, deeper nodes first among equal priorities,
\* builds any of them).
Below(t, p) == t = <<>> \/ t.priority <= p

RECURSIVE Trees(_, _)
Trees(lo, hi) ==
  {<<>>} \cup
  UNION { { [item |-> [key |-> k, val |-> v], priority |-> p, l |-> L, r |-> R] :
              v \in Vals,
              L \in {t \in Trees(lo, k - 1) : Below(t, p)},
              R \in {t \in Trees(k + 1, hi) : Below(t, p)} }
          : k \in lo..hi, p \in Prios }

\* the nodes of tree t laid out in preorder from address `next`
RECURSIVE Layout(_, _, _)
Layout(t, h, next) ==
  IF t = <<>> THEN [h |-> h, root |-> NIL, next |-> next]
  ELSE LET L == Layout(t.l, h, next + 1)
           R == Layout(t.r, L.h, L.next)
       IN [h |-> [R.h EXCEPT ![next] = MkNode(t.item, t.priority, L.root, R.root)],
           root |-> next, next |-> R.next]

InitTree ==
  \E t \in Trees(1, MaxKey) :
    \E lay \in {Layout(t, [a \in Addr |-> ZeroNode], 1)} :
      /\ heap = lay.h
      /\ versions = <<lay.root>>
      /\ hist = <<[call |-> LogRec(FALSE, "", NoItem, 0), pure |-> FALSE,
                   calls |-> 0, snap |-> Abs(lay.h, lay.root), ref |-> EmptyRef]>>
      /\ nodePool = [a \in Addr |-> 0]
      /\ crashed = FALSE
      /\ rd = NoReader
      /\ res = NoRes

Pivots == 0..(MaxKey + 1)

\* a visitor that never asks to stop, or that asks at one key: the traversal
\* ends at the first false, so the first such key is all that matters
Stops == {{}} \cup {{k} : k \in Keys}

DoVisitAscend ==
  \E pv \in Pivots, stop \in Stops :
    /\ res' = [op |-> "VisitAscend", pivot |-> KeyItem(pv), stop |-> stop,
               out |-> VisitAscend(heap, LatestRoot, KeyItem(pv), stop)]
    /\ UNCHANGED <<heap, nodePool, versions, hist, crashed, rd>>

\* Get, Min and Max read the tree and write nothing
DoGet ==
  \E k \in Pivots :
    /\ res' = [op |-> "Get", target |-> KeyItem(k),
               out |-> Get(heap, LatestRoot, KeyItem(k))]
    /\ UNCHANGED <<heap, nodePool, versions, hist, crashed, rd>>

DoMin ==
  /\ res' = [op |-> "Min", out |-> Min(heap, LatestRoot)]
  /\ UNCHANGED <<heap, nodePool, versions, hist, crashed, rd>>

DoMax ==
  /\ res' = [op |-> "Max", out |-> Max(heap, LatestRoot)]
  /\ UNCHANGED <<heap, nodePool, versions, hist, crashed, rd>>

\* split(t.root, s) on its own: the nodes it builds are dropped when it returns
DoSplit ==
  \E pv \in Pivots :
    \E st \in {St(heap, nodePool, versions)} :
      \E o \in split(st, LatestRoot, KeyItem(pv), SplitFuel) :
        /\ res' = [op |-> "split", s |-> KeyItem(pv), was |-> heap,
                   h |-> o.st.heap, ok |-> o.st.ok,
                   left |-> o.left, middle |-> o.middle, right |-> o.right]
        /\ heap' = Collect(o.st.heap, versions)
        /\ nodePool' = o.st.pool
        /\ UNCHANGED <<versions, hist, crashed, rd>>

NextTree == DoVisitAscend \/ DoGet \/ DoMin \/ DoMax \/ DoSplit

SpecTree == InitTree /\ [][NextTree]_vars

\* SpecJoin: join(L, R) on its own, on every pair split can return for a pivot
\* that is stored: two BST- and heap-ordered trees with a key between them.
\* The pool holds one of the blank nodes init put there.
JoinKeyMax == MaxKey + 2

BlankPool == [a \in Addr |-> IF a = MaxAddr THEN 1 ELSE 0]

InitJoin ==
  \E k \in 1..JoinKeyMax :
    \E L \in Trees(1, k - 1), R \in Trees(k + 1, JoinKeyMax) :
      \E layL \in {Layout(L, [a \in Addr |-> ZeroNode], 1)} :
        \E layR \in {Layout(R, layL.h, layL.next)} :
          /\ heap = layR.h
          /\ versions = <<layL.root, layR.root>>
          /\ hist = <<[call |-> LogRec(FALSE, "", NoItem, 0), pure |-> FALSE,
                       calls |-> 0, snap |-> Abs(layR.h, layL.root), ref |-> EmptyRef],
                      [call |-> LogRec(FALSE, "", NoItem, 0), pure |-> FALSE,
                       calls |-> 0, snap |-> Abs(layR.h, layR.root), ref |-> EmptyRef]>>
          /\ nodePool = BlankPool
          /\ crashed = FALSE
          /\ rd = NoReader
          /\ res = NoRes

DoJoin ==
  \E st \in {St(heap, nodePool, versions)} :
    \E o \in join(st, versions[1], versions[2], JoinFuel) :
      /\ res.op = "none"
      /\ res' = [op |-> "join", was |-> heap, h |-> o.st.heap, ok |-> o.st.ok,
                 pool |-> o.st.pool, n |-> o.n]
      /\ heap' = Collect(o.st.heap, versions)
      /\ nodePool' = o.st.pool
      /\ UNCHANGED <<versions, hist, crashed, rd>>

NextJoin == DoJoin

SpecJoin == InitJoin /\ [][NextJoin]_vars

\* ------------------------------------------------------------------ the invariants of a version
BSTNode(h, a) ==
  /\ \A b \in Reach(h, h[a].left) : compare(h[b].item, h[a].item) < 0
  /\ \A b \in Reach(h, h[a].right) : compare(h[b].item, h[a].item) > 0

BSTVersion(h, root) == \A a \in Reach(h, root) : BSTNode(h, a)

UniqueKeys(h, root) ==
  \A a, b \in Reach(h, root) : a # b => h[a].item.key # h[b].item.key

HeapNode(h, a) ==
  /\ h[a].left # NIL => h[a].priority >= h[h[a].left].priority
  /\ h[a].right # NIL => h[a].priority >= h[h[a].right].priority

HeapVersion(h, root) == \A a \in Reach(h, root) : HeapNode(h, a)

\* the fields a walk from n meets, level by level, down to depth d
RECURSIVE Unfold(_, _, _)
Unfold(h, n, d) ==
  IF n = NIL THEN <<>>
  ELSE IF d = 0 THEN <<"deeper">>
  ELSE <<h[n].item, h[n].priority, Unfold(h, h[n].left, d - 1),
         Unfold(h, h[n].right, d - 1)>>


\* ------------------------------------------------------------------ C1
\* C1: a call never changes what an already returned version holds: for every
\* handle and key, Get returns after the call what it returned before it, and
\* every field reachable from the handle reads as before.
C1_Persistence ==
  [][\A i \in DOMAIN versions :
       /\ \A k \in Keys : Get(heap', versions'[i], KeyItem(k))
                            = Get(heap, versions[i], KeyItem(k))
       /\ Unfold(heap', versions'[i], MaxAddr) = Unfold(heap, versions[i], MaxAddr)
    ]_vars

\* ------------------------------------------------------------------ C2
\* C2: on a linear history the latest version agrees with the reference map:
\* Get(k) is the item last upserted for k, absent if k was deleted since or
\* never upserted.
C2_MapRefinement ==
  \A k \in Keys : Get(heap, LatestRoot, KeyItem(k)) = hist[Latest].ref[k]

\* ------------------------------------------------------------------ C3
\* C3: a Get that runs while the writer makes its calls returns what the version
\* held when the reader picked it.
C3_SnapshotRead == rd.pc = "done" => rd.result = rd.expect

\* ------------------------------------------------------------------ C4
\* C4: the version a call returns satisfies the BST invariant (left subtree
\* strictly less, right subtree strictly greater) and holds each key once.
C4_BST == BSTVersion(heap, LatestRoot) /\ UniqueKeys(heap, LatestRoot)

\* ------------------------------------------------------------------ C5
\* C5: in the version a call returns every node's priority is >= the priority
\* of each of its children.
C5_Heap == HeapVersion(heap, LatestRoot)

\* ------------------------------------------------------------------ the last call of a chain
LastCall == hist[Latest].call
Before == hist[Latest - 1].snap      \* T: the version the last call was made on
After == hist[Latest].snap           \* the version the last call returned
Stored(t, k) == {n \in t : n.item.key = k}
KeysOf(t) == {n.item.key : n \in t}
Upserted == Latest >= 2 /\ LastCall.op = "Upsert"
Deleted == Latest >= 2 /\ LastCall.op = "Delete"

\* ------------------------------------------------------------------ C6
\* C6: an Upsert of a key already stored keeps the priority the key was first
\* inserted with, whatever priority the Upsert gives.
C6_PriorityRetention ==
  Upserted =>
    \A n \in Stored(Before, LastCall.item.key) :
      \A m \in Stored(After, LastCall.item.key) : m.priority = n.priority

\* ------------------------------------------------------------------ C7
\* C7 as stated: an Upsert of a stored key with a priority lower than the stored
\* one keeps the stored item (and the stored priority) in the node of that key.
C7_StoredItemKept ==
  Upserted =>
    \A n \in Stored(Before, LastCall.item.key) :
      n.priority > LastCall.prio =>
        \A m \in Stored(After, LastCall.item.key) :
          m.item = n.item /\ m.priority = n.priority

\* C7 amended: the node of that key carries the item given to Upsert (the
\* colliding item of `that`) together with the stored priority.
C7_UpsertedItemStoredPriority ==
  Upserted =>
    \A n \in Stored(Before, LastCall.item.key) :
      n.priority > LastCall.prio =>
        /\ Stored(After, LastCall.item.key) # {}
        /\ \A m \in Stored(After, LastCall.item.key) :
             m.item = LastCall.item /\ m.priority = n.priority

C7_Witness ==
  /\ Upserted
  /\ \E n \in Stored(Before, LastCall.item.key) :
       n.priority > LastCall.prio /\ n.item # LastCall.item

\* ------------------------------------------------------------------ C8
\* C8: T.Delete(k), T built by a chain of Upserts: the result holds the keys of
\* T without k, Get(k) is absent, every other key keeps its item and priority.
C8_DeleteResult ==
  Deleted =>
    /\ KeysOf(After) = KeysOf(Before) \ {LastCall.item.key}
    /\ Get(heap, LatestRoot, LastCall.item) = NoItem
    /\ \A k \in KeysOf(After) :
         /\ Cardinality(Stored(After, k)) = 1
         /\ {[item |-> n.item, priority |-> n.priority] : n \in Stored(After, k)}
              = {[item |-> n.item, priority |-> n.priority] : n \in Stored(Before, k)}
         /\ Get(heap, LatestRoot, KeyItem(k)) \in {n.item : n \in Stored(Before, k)}

C8_Witness ==
  /\ Deleted
  /\ LastCall.item.key \in KeysOf(Before)
  /\ Cardinality(KeysOf(After)) = 2

C8_WitnessAbsentKey ==
  /\ Deleted
  /\ LastCall.item.key \notin KeysOf(Before)
  /\ Cardinality(KeysOf(After)) = 2

\* ------------------------------------------------------------------ C9
\* the round trip: the last two calls were Upsert(k, p) with k not in T, then
\* Delete(k)
RoundTrip ==
  /\ Latest >= 3 /\ Deleted
  /\ hist[Latest - 1].call.op = "Upsert"
  /\ hist[Latest - 1].call.item.key = LastCall.item.key
  /\ LastCall.item.key \notin KeysOf(hist[Latest - 2].snap)

DistinctPriorities(t) ==
  \A n, m \in t : n # m => n.priority # m.priority

\* C9 as stated: T.Upsert(k, p).Delete(k) has the keys, items, priorities and
\* the shape of T.
C9_RoundTrip == RoundTrip => After = hist[Latest - 2].snap

\* C9 amended: the keys, items and priorities are those of T; the shape is
\* that of T when the priorities stored in T are pairwise distinct.
C9_RoundTripDistinct ==
  RoundTrip =>
    /\ {[item |-> n.item, priority |-> n.priority] : n \in After}
         = {[item |-> n.item, priority |-> n.priority] : n \in hist[Latest - 2].snap}
    /\ DistinctPriorities(hist[Latest - 2].snap) => After = hist[Latest - 2].snap

C9_Witness ==
  /\ RoundTrip
  /\ Cardinality(After) = 2
  /\ DistinctPriorities(hist[Latest - 2].snap)
  /\ hist[Latest - 1].call.prio \in {n.priority : n \in hist[Latest - 2].snap}

\* ------------------------------------------------------------------ C10
\* the items of S in ascending order of key
RECURSIVE Ascending(_)
Ascending(S) ==
  IF S = {} THEN <<>>
  ELSE LET m == CHOOSE x \in S : \A y \in S : compare(x, y) <= 0
       IN <<m>> \o Ascending(S \ {m})

ItemsOf(h, root) == {h[a].item : a \in Reach(h, root)}

\* C10: with a visitor that always returns true, VisitAscend calls the visitor
\* once for each item >= pivot and for no other, in ascending order.
C10_AscendingTraversal ==
  (res.op = "VisitAscend" /\ res.stop = {} /\ BSTVersion(heap, LatestRoot)) =>
    /\ res.out.ends
    /\ res.out.calls =
         Ascending({i \in ItemsOf(heap, LatestRoot) : compare(i, res.pivot) >= 0})

C10_Witness ==
  /\ res.op = "VisitAscend" /\ res.stop = {}
  /\ Len(res.out.calls) = 2
  /\ \E i \in ItemsOf(heap, LatestRoot) : compare(i, res.pivot) < 0
  /\ \E i \in ItemsOf(heap, LatestRoot) : compare(i, res.pivot) = 0

\* ------------------------------------------------------------------ C11
\* the first n elements of q that come before (and include) the first one the
\* visitor answers false to
RECURSIVE UpToFalse(_, _)
UpToFalse(q, stop) ==
  IF q = <<>> THEN <<>>
  ELSE IF ~visitor(stop, Head(q)) THEN <<Head(q)>>
  ELSE <<Head(q)>> \o UpToFalse(Tail(q), stop)

\* C11: once the visitor returns false it is not called again: the calls of a
\* traversal are the ascending items >= pivot up to and including the first
\* item the visitor answers false to, and nothing after it.
C11_EarlyTermination ==
  res.op = "VisitAscend" =>
    /\ res.out.ends
    /\ res.out.calls =
         UpToFalse(Ascending({i \in ItemsOf(heap, LatestRoot) :
                                compare(i, res.pivot) >= 0}), res.stop)
    /\ \A j \in 1..(Len(res.out.calls) - 1) : visitor(res.stop, res.out.calls[j])

\* the visitor said false at the second call, in a left subtree, and a greater
\* item was left unvisited
C11_Witness ==
  /\ res.op = "VisitAscend"
  /\ Len(res.out.calls) = 2
  /\ ~visitor(res.stop, res.out.calls[2])
  /\ \E i \in ItemsOf(heap, LatestRoot) : compare(i, res.out.calls[2]) > 0
  /\ heap[LatestRoot].item.key = MaxKey

\* ------------------------------------------------------------------ C12
Least(S) == CHOOSE x \in S : \A y \in S : compare(x, y) <= 0
Greatest(S) == CHOOSE x \in S : \A y \in S : compare(x, y) >= 0
StoredAt(h, root, k) == {i \in ItemsOf(h, root) : compare(i, k) = 0}

\* C12: on a BST, Min is the least item, Max the greatest, Get(k) the stored
\* item of key k; absent on the empty treap and for a key not stored; the
\* three calls write no node and leave the pool alone.
C12_PointQueries ==
  /\ [](LET S == ItemsOf(heap, LatestRoot) IN
         /\ res.op = "Min" => res.out = IF S = {} THEN NoItem ELSE Least(S)
         /\ res.op = "Max" => res.out = IF S = {} THEN NoItem ELSE Greatest(S)
         /\ res.op = "Get" =>
              IF StoredAt(heap, LatestRoot, res.target) = {} THEN res.out = NoItem
              ELSE res.out \in StoredAt(heap, LatestRoot, res.target))
  /\ [][res'.op \in {"Min", "Max", "Get"} => heap' = heap /\ nodePool' = nodePool]_vars

C12_Witness ==
  /\ res.op = "Min"
  /\ Cardinality(ItemsOf(heap, LatestRoot)) = MaxKey
  /\ res.out # heap[LatestRoot].item
  /\ res.out.val = MaxVal

\* ------------------------------------------------------------------ C13
\* C13: no node reachable from a handle a caller holds is in the pool.
C13_RecyclerSafety ==
  \A i \in DOMAIN versions :
    Reach(heap, versions[i]) \cap PoolAddrs(nodePool) = {}

\* ------------------------------------------------------------------ C14
\* no node is its own descendant and none is reached by two paths
Acyclic(h, root) ==
  \A a \in Reach(h, root) :
    /\ a \notin Reach(h, h[a].left) \cup Reach(h, h[a].right)
    /\ Reach(h, h[a].left) \cap Reach(h, h[a].right) = {}

\* C14: on a linear chain every returned version is a finite acyclic tree and
\* no call recurses without end.
C14_Acyclic == ~crashed /\ Acyclic(heap, LatestRoot)

\* ------------------------------------------------------------------ C18
\* C18: the pool holds each node at most once.
C18_PoolHoldsOnce == \A a \in Addr : nodePool[a] <= 1

\* ------------------------------------------------------------------ C15
\* item and priority of every node of a tree
Entries(h, root) ==
  {[item |-> h[a].item, priority |-> h[a].priority] : a \in Reach(h, root)}

Sound(h, root) ==
  BSTVersion(h, root) /\ HeapVersion(h, root) /\ Acyclic(h, root)

\* C15: with newNode handing out new nodes, split(n, s) returns L with exactly
\* the items < s, R with exactly the items > s, M the node of n equal to s or
\* nil; L and R are BST- and heap-ordered, every item keeps its priority, and
\* no node of n is written.
C15_SplitContract ==
  res.op = "split" =>
    LET n == LatestRoot
        eq == {a \in Reach(res.was, n) : compare(res.was[a].item, res.s) = 0}
    IN /\ res.ok
       /\ Entries(res.h, res.left) =
            {e \in Entries(res.was, n) : compare(e.item, res.s) < 0}
       /\ Entries(res.h, res.right) =
            {e \in Entries(res.was, n) : compare(e.item, res.s) > 0}
       /\ IF eq = {} THEN res.middle = NIL ELSE res.middle \in eq
       /\ Sound(res.h, res.left) /\ Sound(res.h, res.right)
       /\ \A a \in Reach(res.was, n) : res.h[a] = res.was[a]
       /\ heap = res.was

\* s found below the root: both L and R are built from copies
C15_Witness ==
  /\ res.op = "split"
  /\ res.middle \notin {NIL, LatestRoot}
  /\ res.left # NIL /\ res.right # NIL
  /\ {res.left, res.right} \cap Reach(res.was, LatestRoot) = {}

\* ------------------------------------------------------------------ C16
EntryAt(h, a) == [item |-> h[a].item, priority |-> h[a].priority]

\* C16: join(L, R) holds exactly the items of L and R with their priorities,
\* is BST- and heap-ordered, has L's root on top when L.priority > R.priority
\* and R's root otherwise (ties included), takes nothing from the pool and
\* writes no node of L or R.
C16_JoinContract ==
  res.op = "join" =>
    LET L == versions[1]
        R == versions[2]
        old == Reach(res.was, L) \cup Reach(res.was, R)
    IN /\ res.ok
       /\ Entries(res.h, res.n) = Entries(res.was, L) \cup Entries(res.was, R)
       /\ Cardinality(Reach(res.h, res.n)) = Cardinality(old)
       /\ Sound(res.h, res.n)
       /\ IF L = NIL THEN res.n = R
          ELSE IF R = NIL THEN res.n = L
          ELSE IF res.was[L].priority > res.was[R].priority
            THEN EntryAt(res.h, res.n) = EntryAt(res.was, L)
            ELSE EntryAt(res.h, res.n) = EntryAt(res.was, R)
       /\ res.pool = BlankPool /\ nodePool = BlankPool
       /\ \A a \in old : res.h[a] = res.was[a] /\ heap[a] = res.was[a]

\* two trees of two nodes each whose roots tie in priority
C16_Witness ==
  /\ res.op = "join"
  /\ Cardinality(Reach(res.was, versions[1])) = 2
  /\ Cardinality(Reach(res.was, versions[2])) = 2
  /\ res.was[versions[1]].priority = res.was[versions[2]].priority
  /\ Cardinality(Reach(res.h, res.n)) = 4

\* ------------------------------------------------------------------ C17
\* the nodes of t that are no node's child
RootsOf(t) ==
  {n \in t : \A m \in t : m.left # n.item.key /\ m.right # n.item.key}

Larger(a, b) == IF a >= b THEN a ELSE b

====
